---- MODULE Spec2Model ----
(***************************************************************************)
(* Model of pkg/runtime/namespace/command.go: the Commands that mutate a   *)
(* Namespace (topology map ns.dss, ns.rule, ns.parameters,                 *)
(* ns.slowThreshold, ns.slowLog) and the lock-free readers of the          *)
(* published snapshots.                                                    *)
(*                                                                         *)
(* Go maps and slices are reference objects, so the model keeps a heap:    *)
(* `maps` holds every map[string][]proto.DB ever allocated, `slices` every *)
(* []proto.DB backing sequence; ns.dss holds the id of a map object.       *)
(***************************************************************************)
EXTENDS Integers, Sequences, FiniteSets, TLC

VARIABLES
    dss,            \* ns.dss: id of the map object currently stored
    rule,           \* ns.rule
    parameters,     \* ns.parameters: set of <<key, value>> pairs
    slowThreshold,  \* ns.slowThreshold
    slowLog,        \* ns.slowLog
    lock,           \* holder of the Namespace mutex, or NoThread
    maps,           \* heap: map id -> [group -> slice id]
    slices,         \* heap: slice id -> sequence of handles
    weight,         \* per handle: weight set through SetWeight
    closed,         \* per handle: number of Close() calls received
    setCalls,       \* per handle: number of SetWeight() calls received
    pc,             \* per thread: position inside the command it runs
    cmd,            \* per thread: the command being applied
    current,        \* per thread: local `dss` / `current` (map id loaded)
    newborn,        \* per thread: local `newborn` (map id built)
    victim,         \* per thread: local `bingo` / `removed` / `expired`
    err,            \* per thread: outcome of the last handle call
    ret,            \* per thread: value returned by the last command
    log,            \* commands in the order they were applied (invoked)
    hist,           \* publications of ns.dss in order: id, value, command
    rd              \* per reader: what its latest accessor call returned

vars == <<dss, rule, parameters, slowThreshold, slowLog, lock, maps, slices,
          weight, closed, setCalls, pc, cmd, current, newborn, victim, err, ret, log,
          hist, rd>>

nsVars     == <<dss, rule, parameters, slowThreshold, slowLog>>
heapVars   == <<maps, slices>>
handleVars == <<weight, closed, setCalls>>
readerVars == <<rd>>

(***************************************************************************)
(* Bounds                                                                  *)
(***************************************************************************)
MaxCmds     == 3    \* commands applied by the single sequential caller
MaxConcCmds == 2    \* commands applied in total by concurrent callers
MaxCfgCmds  == 4    \* commands applied by the configuration-only caller
MaxLockCmds == 3    \* commands applied in total by callers contending for the mutex

(***************************************************************************)
(* Universe of arguments                                                   *)
(***************************************************************************)
Nil      == "nil"
NoThread == "nobody"
NoMap    == 0
NoRead   == [topology |-> NoMap, rule |-> Nil]

Groups  == {"g1", "g2"}
IDs     == {"db_a", "db_b"}
\* three handle objects; h1 and h2 are distinct objects with the same ID
Handles == {"h1", "h2", "h3"}
ID(h)   == IF h = "h3" THEN "db_b" ELSE "db_a"

InitWeight == 1
Weights    == {2}
InitRule   == "r0"
Rules      == {"r1"}
Paths      == {"slow.log"}
NoLogger   == "nologger"

SlowThreshold == "slow_threshold"
NoParams      == {}
ParamMaps     == { NoParams,
                   {<<SlowThreshold, "garbage">>},
                   {<<SlowThreshold, "1s">>} }

\* time.ParseDuration: a duration in seconds, or -1 for a parse error
ParseDuration(s) ==
    CASE s = "1s" -> 1
      [] s = "2s" -> 2
      [] OTHER    -> -1

TopoOps   == {"UpsertDB", "RemoveNode", "RemoveDB", "RemoveGroup"}
LockedOps == TopoOps \cup {"UpdateWeight", "UpdateRule"}

MkCmd(op, g, id, ds, w, r, p, path) ==
    [op |-> op, group |-> g, id |-> id, ds |-> ds, weight |-> w,
     rule |-> r, params |-> p, path |-> path]

NoCmd == MkCmd("none", Nil, Nil, Nil, 0, Nil, NoParams, Nil)

CmdUpdateWeight(g, id, w)   == MkCmd("UpdateWeight", g, id, Nil, w, Nil, NoParams, Nil)
CmdRemoveNode(g, id)        == MkCmd("RemoveNode", g, id, Nil, 0, Nil, NoParams, Nil)
CmdRemoveGroup(g)           == MkCmd("RemoveGroup", g, Nil, Nil, 0, Nil, NoParams, Nil)
CmdRemoveDB(g, id)          == MkCmd("RemoveDB", g, id, Nil, 0, Nil, NoParams, Nil)
CmdUpsertDB(g, ds)          == MkCmd("UpsertDB", g, ID(ds), ds, 0, Nil, NoParams, Nil)
CmdUpdateRule(r)            == MkCmd("UpdateRule", Nil, Nil, Nil, 0, r, NoParams, Nil)
CmdUpdateParameters(p)      == MkCmd("UpdateParameters", Nil, Nil, Nil, 0, Nil, p, Nil)
CmdUpdateSlowThreshold      == MkCmd("UpdateSlowThreshold", Nil, Nil, Nil, 0, Nil, NoParams, Nil)
CmdUpdateSlowLogger(path)   == MkCmd("UpdateSlowLogger", Nil, Nil, Nil, 0, Nil, NoParams, path)

Commands ==
    {CmdUpdateWeight(g, id, w) : g \in Groups, id \in IDs, w \in Weights}
    \cup {CmdRemoveNode(g, id) : g \in Groups, id \in IDs}
    \cup {CmdRemoveGroup(g) : g \in Groups}
    \cup {CmdRemoveDB(g, id) : g \in Groups, id \in IDs}
    \cup {CmdUpsertDB(g, ds) : g \in Groups, ds \in Handles}
    \cup {CmdUpdateRule(r) : r \in Rules}
    \cup {CmdUpdateParameters(p) : p \in ParamMaps}
    \cup {CmdUpdateSlowThreshold}
    \cup {CmdUpdateSlowLogger(path) : path \in Paths}

(***************************************************************************)
(* Heap helpers                                                            *)
(***************************************************************************)
EmptyMap == [g \in {} |-> 0]

\* (bug variant) `newborn := dss`: the new map aliases the published one
MakeMapAlias(ms, cur) == cur

\* make(map[string][]proto.DB): a fresh map object
MakeMap(ms, cur) == Len(ms) + 1

\* write map object `id` of the heap
PutMap(ms, id, m) ==
    [i \in 1..(IF id > Len(ms) THEN id ELSE Len(ms)) |-> IF i = id THEN m ELSE ms[i]]

\* the group -> sequence-of-handles value of map object m in heap (ms, ss)
ViewIn(ms, ss, m) == [g \in DOMAIN ms[m] |-> ss[ms[m][g]]]
View(m)           == ViewIn(maps, slices, m)

Threads == DOMAIN pc
Readers == DOMAIN rd

CfgThread == "cfg"

LockThreads == {"w1", "w2"}

CmdLimit ==
    IF Threads = {CfgThread} THEN MaxCfgCmds
    ELSE IF Threads = LockThreads THEN MaxLockCmds
    ELSE IF Cardinality(Threads) = 1 THEN MaxCmds ELSE MaxConcCmds

\* concurrent callers draw their commands from those about one handle ID
\* (two handle objects carry it); the single caller draws from all of them
ConcCommands == {c \in Commands : c.id \in {Nil, "db_a"}}
\* a caller that only reconfigures the rule and the scalar settings
CfgCommands ==
    {c \in Commands : c.op \in {"UpdateRule", "UpdateParameters",
                                 "UpdateSlowThreshold", "UpdateSlowLogger"}}
\* callers contending for the mutex: every locking command, about one group,
\* one ID and one handle
LockCommands ==
    {c \in Commands : /\ c.op \in LockedOps
                      /\ c.group \in {Nil, "g1"}
                      /\ c.id \in {Nil, "db_a"}
                      /\ c.ds \in {Nil, "h1"}}
\* the single caller also supplies the nil rule pointer
SeqCommands == Commands \cup {CmdUpdateRule(Nil)}
Universe ==
    IF Threads = {CfgThread} THEN CfgCommands
    ELSE IF Threads = LockThreads THEN LockCommands
    ELSE IF Cardinality(Threads) = 1 THEN SeqCommands ELSE ConcCommands

(***************************************************************************)
(* Loops of the commands, as functions of the sequence they scan           *)
(***************************************************************************)
\* (bug variant) the ID test is missing: the first handle is taken
FirstOfGroup(s, id) == IF s = <<>> THEN Nil ELSE Head(s)

\* `for _, it := range exist { if it.ID() == id { bingo = it; break } }`
RECURSIVE FirstWithID(_, _)
FirstWithID(s, id) ==
    IF s = <<>> THEN Nil
    ELSE IF ID(Head(s)) = id THEN Head(s)
    ELSE FirstWithID(Tail(s), id)

\* `if it.ID() == id { expired = it; continue }`: the last match wins
RECURSIVE LastWithID(_, _, _)
LastWithID(s, id, found) ==
    IF s = <<>> THEN found
    ELSE LastWithID(Tail(s), id, IF ID(Head(s)) = id THEN Head(s) ELSE found)

\* `if it.ID() == id { ...; continue }; values = append(values, it)`
RECURSIVE Without(_, _)
Without(s, id) ==
    IF s = <<>> THEN <<>>
    ELSE IF ID(Head(s)) = id THEN Without(Tail(s), id)
    ELSE <<Head(s)>> \o Without(Tail(s), id)

(***************************************************************************)
(* Initial state: a constructed Namespace holds an empty topology map and  *)
(* an empty rule; no command is running.                                   *)
(***************************************************************************)
InitNamespace ==
    /\ dss = 1
    /\ maps = <<EmptyMap>>
    /\ slices = <<>>
    /\ rule = InitRule
    /\ parameters = NoParams
    /\ slowThreshold = 0
    /\ slowLog = NoLogger
    /\ lock = NoThread
    /\ weight = [h \in Handles |-> InitWeight]
    /\ closed = [h \in Handles |-> 0]
    /\ setCalls = [h \in Handles |-> 0]
    /\ log = <<>>
    /\ hist = <<[id |-> 1, val |-> EmptyMap, cmd |-> NoCmd]>>

InitThreads(ts, rs) ==
    /\ pc = [t \in ts |-> "idle"]
    /\ cmd = [t \in ts |-> NoCmd]
    /\ current = [t \in ts |-> NoMap]
    /\ newborn = [t \in ts |-> NoMap]
    /\ victim = [t \in ts |-> Nil]
    /\ err = [t \in ts |-> "none"]
    /\ ret = [t \in ts |-> "none"]
    /\ rd = [r \in rs |-> NoRead]

\* one caller applying commands one after the other
Init == InitNamespace /\ InitThreads({"t1"}, {})

\* two callers applying commands concurrently, and one reader
InitConc == InitNamespace /\ InitThreads({"t1", "t2"}, {"r1"})

\* two callers applying commands concurrently
InitFair == InitNamespace /\ InitThreads({"t1", "t2"}, {})

\* two callers applying locking commands concurrently
InitLock == InitNamespace /\ InitThreads(LockThreads, {})

\* one caller applying rule and scalar commands one after the other
InitCfg == InitNamespace /\ InitThreads({CfgThread}, {})

(***************************************************************************)
(* Applying a command and taking the Namespace mutex                       *)
(***************************************************************************)
\* (bug variant) UpsertDB without ns.Lock(); defer ns.Unlock()
NeedsLockExceptUpsert(op) == op \in LockedOps \ {"UpsertDB"}

\* the commands whose closure starts with ns.Lock(); defer ns.Unlock()
NeedsLock(op) == op \in LockedOps

\* a caller applies command c to the Namespace
Invoke(t, c) ==
    /\ pc[t] = "idle"
    /\ Len(log) < CmdLimit
    /\ pc' = [pc EXCEPT ![t] = IF NeedsLock(c.op) THEN "lock" ELSE "body"]
    /\ cmd' = [cmd EXCEPT ![t] = c]
    /\ err' = [err EXCEPT ![t] = "none"]
    /\ ret' = [ret EXCEPT ![t] = "none"]
    /\ log' = Append(log, c)
    /\ UNCHANGED <<nsVars, heapVars, handleVars, readerVars, lock, current,
                   newborn, victim, hist>>

\* ns.Lock()
Lock(t) ==
    /\ pc[t] = "lock"
    /\ lock = NoThread
    /\ lock' = t
    /\ pc' = [pc EXCEPT ![t] = "body"]
    /\ UNCHANGED <<nsVars, heapVars, handleVars, readerVars, cmd, current,
                   newborn, victim, err, ret, log, hist>>

\* (bug variant) Unlock is called at the end of the body instead of being
\* deferred, so a return for an absent target leaves the mutex held
ReturnNoDefer(t) ==
    /\ pc[t] = "ret"
    /\ lock' = IF /\ NeedsLock(cmd[t].op)
                  /\ ~(cmd[t].op \in {"UpdateWeight", "RemoveDB"} /\ victim[t] = Nil)
               THEN NoThread ELSE lock
    /\ pc' = [pc EXCEPT ![t] = "idle"]
    /\ current' = [current EXCEPT ![t] = NoMap]
    /\ newborn' = [newborn EXCEPT ![t] = NoMap]
    /\ victim' = [victim EXCEPT ![t] = Nil]
    /\ UNCHANGED <<nsVars, heapVars, handleVars, readerVars, cmd, err, ret,
                   log, hist>>

\* `return nil` followed by the deferred ns.Unlock()
Return(t) ==
    /\ pc[t] = "ret"
    /\ lock' = IF NeedsLock(cmd[t].op) THEN NoThread ELSE lock
    /\ pc' = [pc EXCEPT ![t] = "idle"]
    /\ current' = [current EXCEPT ![t] = NoMap]
    /\ newborn' = [newborn EXCEPT ![t] = NoMap]
    /\ victim' = [victim EXCEPT ![t] = Nil]
    /\ UNCHANGED <<nsVars, heapVars, handleVars, readerVars, cmd, err, ret,
                   log, hist>>

\* ns.dss.Store(newborn)
StoreDss(t) ==
    /\ dss' = newborn[t]
    /\ hist' = Append(hist, [id |-> newborn[t], val |-> View(newborn[t]),
                             cmd |-> cmd[t]])

\* the group's sequence in map object m, or the empty range when absent
GroupSeq(m, g) == IF g \in DOMAIN maps[m] THEN slices[maps[m][g]] ELSE <<>>

(***************************************************************************)
(* UpdateWeight                                                            *)
(***************************************************************************)
\* (bug variant) the SetWeight error is returned to the caller
UpdateWeightResultPropagate(failed) == IF failed THEN "err" ELSE "nil"

\* the value UpdateWeight returns after SetWeight (failed or not)
UpdateWeightResult(failed) == "nil"

UpdateWeightLookup(t) ==
    /\ pc[t] = "body"
    /\ cmd[t].op = "UpdateWeight"
    /\ LET bingo == FirstWithID(GroupSeq(dss, cmd[t].group), cmd[t].id)
       IN  /\ current' = [current EXCEPT ![t] = dss]
           /\ victim' = [victim EXCEPT ![t] = bingo]
           /\ IF bingo = Nil
              THEN /\ ret' = [ret EXCEPT ![t] = "nil"]
                   /\ pc' = [pc EXCEPT ![t] = "ret"]
              ELSE /\ ret' = ret
                   /\ pc' = [pc EXCEPT ![t] = "setw"]
    /\ UNCHANGED <<nsVars, heapVars, handleVars, readerVars, lock, cmd,
                   newborn, err, log, hist>>

\* bingo.SetWeight(weight): the handle accepts or rejects the weight
UpdateWeightSet(t) ==
    /\ pc[t] = "setw"
    /\ \E failed \in BOOLEAN :
          /\ setCalls' = [setCalls EXCEPT ![victim[t]] = @ + 1]
          /\ weight' = IF failed THEN weight
                       ELSE [weight EXCEPT ![victim[t]] = cmd[t].weight]
          /\ err' = [err EXCEPT ![t] = IF failed THEN "failed" ELSE "ok"]
          /\ ret' = [ret EXCEPT ![t] = UpdateWeightResult(failed)]
    /\ pc' = [pc EXCEPT ![t] = "ret"]
    /\ UNCHANGED <<nsVars, heapVars, closed, readerVars, lock, cmd, current,
                   newborn, victim, log, hist>>

(***************************************************************************)
(* RemoveNode                                                              *)
(***************************************************************************)
\* (bug variant) every handle is appended, the matching one too
RemoveNodeValuesKeepAll(v, node) == v

\* newVal: the handles of v whose ID is not node, in order
RemoveNodeValues(v, node) == Without(v, node)

\* (bug variant) the rebuilt sequence is never put back under its key
RemoveNodeNewbornDropKey(old, group, sid) ==
    [k \in DOMAIN old \ {group} |-> old[k]]

\* the loop over dss: other groups by reference, the group rebuilt as sid
RemoveNodeNewborn(old, group, sid) ==
    [k \in DOMAIN old |-> IF k # group THEN old[k] ELSE sid]

RemoveNodeBuild(t) ==
    /\ pc[t] = "body"
    /\ cmd[t].op = "RemoveNode"
    /\ LET old   == maps[dss]
           group == cmd[t].group
           v     == GroupSeq(dss, group)
           sid   == Len(slices) + 1
           id    == MakeMap(maps, dss)
       IN  /\ current' = [current EXCEPT ![t] = dss]
           /\ slices' = IF group \in DOMAIN old
                        THEN Append(slices, RemoveNodeValues(v, cmd[t].id))
                        ELSE slices
           /\ maps' = PutMap(maps, id, RemoveNodeNewborn(old, group, sid))
           /\ newborn' = [newborn EXCEPT ![t] = id]
           /\ victim' = [victim EXCEPT ![t] = LastWithID(v, cmd[t].id, Nil)]
    /\ pc' = [pc EXCEPT ![t] = "store"]
    /\ UNCHANGED <<nsVars, handleVars, readerVars, lock, cmd, err, ret, log,
                   hist>>

\* (bug variant) the lock is given up at publication, before Close
RemoveNodeStoreUnlock(t) ==
    /\ pc[t] = "store"
    /\ cmd[t].op = "RemoveNode"
    /\ StoreDss(t)
    /\ lock' = NoThread
    /\ IF victim[t] # Nil
       THEN /\ pc' = [pc EXCEPT ![t] = "close"]
            /\ ret' = ret
       ELSE /\ pc' = [pc EXCEPT ![t] = "ret"]
            /\ ret' = [ret EXCEPT ![t] = "nil"]
    /\ UNCHANGED <<rule, parameters, slowThreshold, slowLog, heapVars,
                   handleVars, readerVars, cmd, current, newborn,
                   victim, err, log>>

RemoveNodeStore(t) ==
    /\ pc[t] = "store"
    /\ cmd[t].op = "RemoveNode"
    /\ StoreDss(t)
    /\ IF victim[t] # Nil
       THEN /\ pc' = [pc EXCEPT ![t] = "close"]
            /\ ret' = ret
       ELSE /\ pc' = [pc EXCEPT ![t] = "ret"]
            /\ ret' = [ret EXCEPT ![t] = "nil"]
    /\ UNCHANGED <<rule, parameters, slowThreshold, slowLog, heapVars,
                   handleVars, readerVars, lock, cmd, current, newborn,
                   victim, err, log>>

\* `_ = removed.Close()`: the outcome of Close is discarded
RemoveNodeClose(t) ==
    /\ pc[t] = "close"
    /\ closed' = [closed EXCEPT ![victim[t]] = @ + 1]
    /\ \E failed \in BOOLEAN :
          err' = [err EXCEPT ![t] = IF failed THEN "failed" ELSE "ok"]
    /\ ret' = [ret EXCEPT ![t] = "nil"]
    /\ pc' = [pc EXCEPT ![t] = "ret"]
    /\ UNCHANGED <<nsVars, heapVars, weight, setCalls, readerVars, lock, cmd,
                   current, newborn, victim, log, hist>>

(***************************************************************************)
(* RemoveGroup                                                             *)
(***************************************************************************)
RemoveGroupNewborn(old, group) ==
    [k \in DOMAIN old \ {group} |-> old[k]]

RemoveGroupBuild(t) ==
    /\ pc[t] = "body"
    /\ cmd[t].op = "RemoveGroup"
    /\ LET id == MakeMap(maps, dss)
       IN  /\ current' = [current EXCEPT ![t] = dss]
           /\ maps' = PutMap(maps, id, RemoveGroupNewborn(maps[dss], cmd[t].group))
           /\ newborn' = [newborn EXCEPT ![t] = id]
    /\ pc' = [pc EXCEPT ![t] = "store"]
    /\ UNCHANGED <<nsVars, slices, handleVars, readerVars, lock, cmd, victim,
                   err, ret, log, hist>>

RemoveGroupStore(t) ==
    /\ pc[t] = "store"
    /\ cmd[t].op = "RemoveGroup"
    /\ StoreDss(t)
    /\ ret' = [ret EXCEPT ![t] = "nil"]
    /\ pc' = [pc EXCEPT ![t] = "ret"]
    /\ UNCHANGED <<rule, parameters, slowThreshold, slowLog, heapVars,
                   handleVars, readerVars, lock, cmd, current, newborn,
                   victim, err, log>>

(***************************************************************************)
(* RemoveDB                                                                *)
(***************************************************************************)
\* values: the handles of exist whose ID is not id, in order
RemoveDBValues(exist, id) == Without(exist, id)

\* copy of every entry, then newborn[group] = values
RemoveDBNewborn(old, group, sid) ==
    [k \in DOMAIN old \cup {group} |-> IF k = group THEN sid ELSE old[k]]

RemoveDBBuild(t) ==
    /\ pc[t] = "body"
    /\ cmd[t].op = "RemoveDB"
    /\ LET group   == cmd[t].group
           exist   == GroupSeq(dss, group)
           expired == LastWithID(exist, cmd[t].id, Nil)
           sid     == Len(slices) + 1
           id      == MakeMap(maps, dss)
       IN  /\ current' = [current EXCEPT ![t] = dss]
           /\ victim' = [victim EXCEPT ![t] = expired]
           /\ IF expired = Nil
              THEN /\ UNCHANGED <<heapVars, newborn>>
                   /\ ret' = [ret EXCEPT ![t] = "nil"]
                   /\ pc' = [pc EXCEPT ![t] = "ret"]
              ELSE /\ slices' = Append(slices, RemoveDBValues(exist, cmd[t].id))
                   /\ maps' = PutMap(maps, id, RemoveDBNewborn(maps[dss], group, sid))
                   /\ newborn' = [newborn EXCEPT ![t] = id]
                   /\ ret' = ret
                   /\ pc' = [pc EXCEPT ![t] = "store"]
    /\ UNCHANGED <<nsVars, handleVars, readerVars, lock, cmd, err, log, hist>>

\* (bug variant) RemoveDB closes the handle it removed, as RemoveNode does
RemoveDBStoreClose(t) ==
    /\ pc[t] = "store"
    /\ cmd[t].op = "RemoveDB"
    /\ StoreDss(t)
    /\ closed' = [closed EXCEPT ![victim[t]] = @ + 1]
    /\ ret' = [ret EXCEPT ![t] = "nil"]
    /\ pc' = [pc EXCEPT ![t] = "ret"]
    /\ UNCHANGED <<rule, parameters, slowThreshold, slowLog, heapVars,
                   weight, setCalls, readerVars, lock, cmd, current, newborn,
                   victim, err, log>>

RemoveDBStore(t) ==
    /\ pc[t] = "store"
    /\ cmd[t].op = "RemoveDB"
    /\ StoreDss(t)
    /\ ret' = [ret EXCEPT ![t] = "nil"]
    /\ pc' = [pc EXCEPT ![t] = "ret"]
    /\ UNCHANGED <<rule, parameters, slowThreshold, slowLog, heapVars,
                   handleVars, readerVars, lock, cmd, current, newborn,
                   victim, err, log>>

(***************************************************************************)
(* UpsertDB                                                                *)
(***************************************************************************)
\* (bug variant) ds is appended without dropping the handle it replaces
UpsertDBValuesNoDrop(exist, ds) == Append(exist, ds)

\* (bug variant) an existing handle with the ID is kept, ds is ignored
UpsertDBValuesKeepOld(exist, ds) ==
    IF FirstWithID(exist, ID(ds)) # Nil THEN exist ELSE Append(exist, ds)

\* the handles of the group with another ID, then ds appended
UpsertDBValues(exist, ds) == Append(Without(exist, ID(ds)), ds)

\* (bug variant) the entries of the other groups are not copied
UpsertDBNewbornNoCopy(old, group, sid) == [k \in {group} |-> sid]

\* copy of every entry, then newborn[group] = values
UpsertDBNewborn(old, group, sid) ==
    [k \in DOMAIN old \cup {group} |-> IF k = group THEN sid ELSE old[k]]

\* (bug variant) the group's published sequence is rewritten in place instead
\* of a new sequence being built
UpsertDBBuildInPlace(t) ==
    /\ pc[t] = "body"
    /\ cmd[t].op = "UpsertDB"
    /\ LET group == cmd[t].group
           exist == GroupSeq(dss, group)
           fresh == group \notin DOMAIN maps[dss]
           sid   == IF fresh THEN Len(slices) + 1 ELSE maps[dss][group]
           id    == MakeMap(maps, dss)
       IN  /\ current' = [current EXCEPT ![t] = dss]
           /\ victim' = [victim EXCEPT ![t] = LastWithID(exist, cmd[t].id, Nil)]
           /\ slices' = IF fresh
                        THEN Append(slices, UpsertDBValues(exist, cmd[t].ds))
                        ELSE [slices EXCEPT ![sid] = UpsertDBValues(exist, cmd[t].ds)]
           /\ maps' = PutMap(maps, id, UpsertDBNewborn(maps[dss], group, sid))
           /\ newborn' = [newborn EXCEPT ![t] = id]
    /\ pc' = [pc EXCEPT ![t] = "store"]
    /\ UNCHANGED <<nsVars, handleVars, readerVars, lock, cmd, err, ret, log,
                   hist>>

UpsertDBBuild(t) ==
    /\ pc[t] = "body"
    /\ cmd[t].op = "UpsertDB"
    /\ LET group == cmd[t].group
           exist == GroupSeq(dss, group)
           sid   == Len(slices) + 1
           id    == MakeMap(maps, dss)
       IN  /\ current' = [current EXCEPT ![t] = dss]
           /\ victim' = [victim EXCEPT ![t] = LastWithID(exist, cmd[t].id, Nil)]
           /\ slices' = Append(slices, UpsertDBValues(exist, cmd[t].ds))
           /\ maps' = PutMap(maps, id, UpsertDBNewborn(maps[dss], group, sid))
           /\ newborn' = [newborn EXCEPT ![t] = id]
    /\ pc' = [pc EXCEPT ![t] = "store"]
    /\ UNCHANGED <<nsVars, handleVars, readerVars, lock, cmd, err, ret, log,
                   hist>>

UpsertDBStore(t) ==
    /\ pc[t] = "store"
    /\ cmd[t].op = "UpsertDB"
    /\ StoreDss(t)
    /\ ret' = [ret EXCEPT ![t] = "nil"]
    /\ pc' = [pc EXCEPT ![t] = "ret"]
    /\ UNCHANGED <<rule, parameters, slowThreshold, slowLog, heapVars,
                   handleVars, readerVars, lock, cmd, current, newborn,
                   victim, err, log>>

(***************************************************************************)
(* UpdateRule, UpdateParameters, UpdateSlowThreshold, UpdateSlowLogger      *)
(***************************************************************************)
\* (bug variant) the supplied rule is discarded for the empty rule
StoredRuleEmpty(r) == InitRule

\* the value ns.rule.Store receives: the supplied rule as it is
StoredRule(r) == r

UpdateRule(t) ==
    /\ pc[t] = "body"
    /\ cmd[t].op = "UpdateRule"
    /\ rule' = StoredRule(cmd[t].rule)
    /\ ret' = [ret EXCEPT ![t] = "nil"]
    /\ pc' = [pc EXCEPT ![t] = "ret"]
    /\ UNCHANGED <<dss, parameters, slowThreshold, slowLog, heapVars,
                   handleVars, readerVars, lock, cmd, current, newborn,
                   victim, err, log, hist>>

UpdateParameters(t) ==
    /\ pc[t] = "body"
    /\ cmd[t].op = "UpdateParameters"
    /\ parameters' = cmd[t].params
    /\ ret' = [ret EXCEPT ![t] = "nil"]
    /\ pc' = [pc EXCEPT ![t] = "idle"]
    /\ UNCHANGED <<dss, rule, slowThreshold, slowLog, heapVars, handleVars,
                   readerVars, lock, cmd, current, newborn, victim, err, log,
                   hist>>

\* (bug variant) the parse error is ignored: the zero duration that
\* time.ParseDuration returns with an error is stored
NewSlowThresholdIgnoreErr(params, prev) ==
    IF \E p \in params : p[1] = SlowThreshold
    THEN LET s == (CHOOSE p \in params : p[1] = SlowThreshold)[2]
         IN  IF ParseDuration(s) # -1 THEN ParseDuration(s) ELSE 0
    ELSE prev

\* the value of ns.slowThreshold after the command, prev being the old one
NewSlowThreshold(params, prev) ==
    IF \E p \in params : p[1] = SlowThreshold
    THEN LET s == (CHOOSE p \in params : p[1] = SlowThreshold)[2]
         IN  IF ParseDuration(s) # -1 THEN ParseDuration(s) ELSE prev
    ELSE prev

UpdateSlowThreshold(t) ==
    /\ pc[t] = "body"
    /\ cmd[t].op = "UpdateSlowThreshold"
    /\ slowThreshold' = NewSlowThreshold(parameters, slowThreshold)
    /\ ret' = [ret EXCEPT ![t] = "nil"]
    /\ pc' = [pc EXCEPT ![t] = "idle"]
    /\ UNCHANGED <<dss, rule, parameters, slowLog, heapVars, handleVars,
                   readerVars, lock, cmd, current, newborn, victim, err, log,
                   hist>>

\* log.NewSlowLogger(path, cfg): a logger writing to path
NewSlowLogger(path) == path

UpdateSlowLogger(t) ==
    /\ pc[t] = "body"
    /\ cmd[t].op = "UpdateSlowLogger"
    /\ slowLog' = NewSlowLogger(cmd[t].path)
    /\ ret' = [ret EXCEPT ![t] = "nil"]
    /\ pc' = [pc EXCEPT ![t] = "idle"]
    /\ UNCHANGED <<dss, rule, parameters, slowThreshold, heapVars,
                   handleVars, readerVars, lock, cmd, current, newborn,
                   victim, err, log, hist>>

(***************************************************************************)
(* Readers: the snapshot accessors of the Namespace                        *)
(***************************************************************************)
\* (bug variant) the accessor waits until no command holds the mutex
CurrentTopologyLocking(r) ==
    /\ lock = NoThread
    /\ rd' = [rd EXCEPT ![r] = [topology |-> dss, rule |-> Nil]]
    /\ UNCHANGED <<nsVars, heapVars, handleVars, lock, pc, cmd, current,
                   newborn, victim, err, ret, log, hist>>

\* ns.dss.Load(): one atomic load, no lock taken
CurrentTopology(r) ==
    /\ rd' = [rd EXCEPT ![r] = [topology |-> dss, rule |-> Nil]]
    /\ UNCHANGED <<nsVars, heapVars, handleVars, lock, pc, cmd, current,
                   newborn, victim, err, ret, log, hist>>

\* ns.rule.Load(): one atomic load, no lock taken
CurrentRule(r) ==
    /\ rd' = [rd EXCEPT ![r] = [topology |-> NoMap, rule |-> rule]]
    /\ UNCHANGED <<nsVars, heapVars, handleVars, lock, pc, cmd, current,
                   newborn, victim, err, ret, log, hist>>

(***************************************************************************)
(* Specifications                                                          *)
(***************************************************************************)
Next ==
    \/ \E t \in Threads, c \in Universe : Invoke(t, c)
    \/ \E t \in Threads : Lock(t)
    \/ \E t \in Threads : UpdateWeightLookup(t)
    \/ \E t \in Threads : UpdateWeightSet(t)
    \/ \E t \in Threads : RemoveNodeBuild(t)
    \/ \E t \in Threads : RemoveNodeStore(t)
    \/ \E t \in Threads : RemoveNodeClose(t)
    \/ \E t \in Threads : RemoveGroupBuild(t)
    \/ \E t \in Threads : RemoveGroupStore(t)
    \/ \E t \in Threads : RemoveDBBuild(t)
    \/ \E t \in Threads : RemoveDBStore(t)
    \/ \E t \in Threads : UpsertDBBuild(t)
    \/ \E t \in Threads : UpsertDBStore(t)
    \/ \E t \in Threads : UpdateRule(t)
    \/ \E t \in Threads : UpdateParameters(t)
    \/ \E t \in Threads : UpdateSlowThreshold(t)
    \/ \E t \in Threads : UpdateSlowLogger(t)
    \/ \E t \in Threads : Return(t)

NextConc ==
    \/ Next
    \/ \E r \in Readers : CurrentTopology(r)
    \/ \E r \in Readers : CurrentRule(r)

NextCfg ==
    \/ \E t \in Threads, c \in Universe : Invoke(t, c)
    \/ \E t \in Threads : Lock(t)
    \/ \E t \in Threads : UpdateRule(t)
    \/ \E t \in Threads : UpdateParameters(t)
    \/ \E t \in Threads : UpdateSlowThreshold(t)
    \/ \E t \in Threads : UpdateSlowLogger(t)
    \/ \E t \in Threads : Return(t)

NextLock ==
    \/ \E t \in Threads, c \in Universe : Invoke(t, c)
    \/ \E t \in Threads : Lock(t)
    \/ \E t \in Threads : UpdateWeightLookup(t)
    \/ \E t \in Threads : UpdateWeightSet(t)
    \/ \E t \in Threads : RemoveNodeBuild(t)
    \/ \E t \in Threads : RemoveNodeStore(t)
    \/ \E t \in Threads : RemoveNodeClose(t)
    \/ \E t \in Threads : RemoveGroupBuild(t)
    \/ \E t \in Threads : RemoveGroupStore(t)
    \/ \E t \in Threads : RemoveDBBuild(t)
    \/ \E t \in Threads : RemoveDBStore(t)
    \/ \E t \in Threads : UpsertDBBuild(t)
    \/ \E t \in Threads : UpsertDBStore(t)
    \/ \E t \in Threads : UpdateRule(t)
    \/ \E t \in Threads : Return(t)

\* every step of a command that has been applied; a command runs on its
\* caller's thread to completion, so an enabled step is eventually taken
Run(t) ==
    \/ UpdateWeightLookup(t)
    \/ UpdateWeightSet(t)
    \/ RemoveNodeBuild(t)
    \/ RemoveNodeStore(t)
    \/ RemoveNodeClose(t)
    \/ RemoveGroupBuild(t)
    \/ RemoveGroupStore(t)
    \/ RemoveDBBuild(t)
    \/ RemoveDBStore(t)
    \/ UpsertDBBuild(t)
    \/ UpsertDBStore(t)
    \/ UpdateRule(t)
    \/ UpdateParameters(t)
    \/ UpdateSlowThreshold(t)
    \/ UpdateSlowLogger(t)
    \/ Return(t)

\* the scheduler runs every thread; the mutex hands over to a waiter that
\* finds it free again and again (sync.Mutex starvation mode)
Fairness ==
    \A t \in {"t1", "t2"} : WF_vars(Run(t)) /\ SF_vars(Lock(t))

Spec     == Init /\ [][Next]_vars
SpecConc == InitConc /\ [][NextConc]_vars
SpecCfg  == InitCfg /\ [][NextCfg]_vars
SpecLock == InitLock /\ [][NextLock]_vars
SpecFair == InitFair /\ [][Next]_vars /\ Fairness

(***************************************************************************)
(* Vocabulary of the properties                                            *)
(***************************************************************************)
\* the values of the snapshots published so far, the initial one included
Snapshots == {hist[i].val : i \in 1..Len(hist)}

HasID(s, id) == \E i \in 1..Len(s) : ID(s[i]) = id

\* the handles of s whose ID is not id, in their order in s
Others(s, id) == SelectSeq(s, LAMBDA h : ID(h) # id)

\* a command of thread t has run its body and is about to return
Finished(t, op) == pc[t] = "ret" /\ cmd[t].op = op

\* the topology that command found and the one it leaves
Before(t) == View(current[t])
After     == View(dss)

AllIdle == \A t \in Threads : pc[t] = "idle"

\* C1: every topology a reader holds equals one of the snapshots that were
\* published (the initial one or the result of a completed mutation); it is
\* never a mapping under construction nor a mix of two snapshots.
C1_SnapshotAtomicity ==
    \A r \in Readers :
        rd[r].topology # NoMap => View(rd[r].topology) \in Snapshots

\* a reader holds a snapshot that is no longer current while a writer has
\* built its newborn map and not yet stored it
C1_Witness ==
    \E r \in Readers, t \in Threads :
        /\ rd[r].topology \notin {NoMap, dss}
        /\ pc[t] = "store"
        /\ Len(hist) >= 2

\* C2: in every group of the current topology the handle IDs are pairwise
\* distinct.
C2_NoDuplicateIDs ==
    \A g \in DOMAIN After :
        \A i, j \in 1..Len(After[g]) :
            i # j => ID(After[g][i]) # ID(After[g][j])

\* UpsertDB displaced a handle with the same ID from a group of two
C2_Witness ==
    \E t \in Threads :
        /\ Finished(t, "UpsertDB")
        /\ victim[t] \notin {Nil, cmd[t].ds}
        /\ Len(After[cmd[t].group]) = 2

\* the target of a removal command is absent from topology v
TargetAbsent(c, v) ==
    IF c.op = "RemoveGroup" THEN c.group \notin DOMAIN v
    ELSE c.group \notin DOMAIN v \/ ~HasID(v[c.group], c.id)

\* C3: a RemoveNode, RemoveDB or RemoveGroup whose target is absent leaves
\* the topology with the same groups and the same sequences, and returns nil.
C3_IdempotentDelete ==
    \A t \in Threads :
        ( /\ pc[t] = "ret"
          /\ cmd[t].op \in {"RemoveNode", "RemoveDB", "RemoveGroup"}
          /\ TargetAbsent(cmd[t], Before(t)) )
        => After = Before(t) /\ ret[t] = "nil"

\* RemoveNode ran on a non-empty group that has no handle with the ID
C3_Witness ==
    \E t \in Threads :
        /\ Finished(t, "RemoveNode")
        /\ cmd[t].group \in DOMAIN Before(t)
        /\ Before(t)[cmd[t].group] # <<>>
        /\ TargetAbsent(cmd[t], Before(t))

\* C4: after a topology command on group A, every other group B of the
\* prior map is mapped to the very same sequence object (same slice id).
C4_StructuralSharing ==
    \A t \in Threads :
        (pc[t] = "ret" /\ cmd[t].op \in TopoOps)
        => \A B \in DOMAIN maps[current[t]] \ {cmd[t].group} :
              /\ B \in DOMAIN maps[dss]
              /\ maps[dss][B] = maps[current[t]][B]

\* UpsertDB published a new map while another, non-empty group existed
C4_Witness ==
    \E t \in Threads :
        /\ Finished(t, "UpsertDB")
        /\ dss # current[t]
        /\ \E B \in DOMAIN Before(t) \ {cmd[t].group} : Before(t)[B] # <<>>

\* C5: UpsertDB(g, h) on a group that already has a handle with h's ID leaves
\* exactly one handle with that ID, namely h, keeps the length of the
\* sequence and keeps every other handle of the group.
C5_UpsertReplaces ==
    \A t \in Threads :
        ( /\ Finished(t, "UpsertDB")
          /\ cmd[t].group \in DOMAIN Before(t)
          /\ HasID(Before(t)[cmd[t].group], cmd[t].id) )
        => LET pre  == Before(t)[cmd[t].group]
               post == After[cmd[t].group]
           IN  /\ Cardinality({i \in 1..Len(post) : ID(post[i]) = cmd[t].id}) = 1
               /\ \A i \in 1..Len(post) :
                     ID(post[i]) = cmd[t].id => post[i] = cmd[t].ds
               /\ Len(post) = Len(pre)
               /\ \A i \in 1..Len(pre) :
                     ID(pre[i]) # cmd[t].id
                        => \E j \in 1..Len(post) : post[j] = pre[i]

\* UpsertDB replaced another handle object with the same ID in a group
\* that also holds a handle with a different ID
C5_Witness ==
    \E t \in Threads :
        /\ Finished(t, "UpsertDB")
        /\ cmd[t].group \in DOMAIN Before(t)
        /\ Len(Before(t)[cmd[t].group]) = 2
        /\ victim[t] \notin {Nil, cmd[t].ds}

\* UpsertDB("g1", db_a), UpsertDB("g1", db_b), RemoveNode("g1", "db_a")
Scenario ==
    <<CmdUpsertDB("g1", "h1"), CmdUpsertDB("g1", "h3"),
      CmdRemoveNode("g1", "db_a")>>

\* C6: RemoveNode(g, id) on a group that has the handle publishes the prior
\* topology with that handle deleted from g, the rest of g in order, g still
\* a key and the other groups unchanged; the scenario ends with g1 = [db_b].
C6_RemoveNodeResult ==
    /\ \A t \in Threads :
          ( /\ Finished(t, "RemoveNode")
            /\ ~TargetAbsent(cmd[t], Before(t)) )
          => After = [Before(t) EXCEPT
                        ![cmd[t].group] = Others(@, cmd[t].id)]
    /\ (log = Scenario /\ AllIdle) => After = [g \in {"g1"} |-> <<"h3">>]

\* the three commands of the scenario have been applied and have returned
C6_Witness == log = Scenario /\ AllIdle

\* a command of thread t is inside its body (applied, past ns.Lock() if any)
Executing(t) == pc[t] \notin {"idle", "lock"}

\* the next step of thread t writes ns.dss, ns.rule, ns.parameters,
\* ns.slowThreshold or ns.slowLog
WritesNext(t) ==
    \/ pc[t] = "store"
    \/ /\ pc[t] = "body"
       /\ cmd[t].op \in {"UpdateRule", "UpdateParameters",
                         "UpdateSlowThreshold", "UpdateSlowLogger"}

\* C7: at most one command is executing on the Namespace at any instant, and
\* every command that writes a field of the Namespace holds the mutex when
\* it writes.
C7_MutationSerialization ==
    /\ Cardinality({t \in Threads : Executing(t)}) <= 1
    /\ \A t \in Threads : WritesNext(t) => lock = t

\* the topology value that command c makes of topology value v
Effect(c, v) ==
    CASE c.op = "UpsertDB" ->
            [g \in DOMAIN v \cup {c.group} |->
                IF g = c.group
                THEN Append(IF g \in DOMAIN v THEN Others(v[g], c.id) ELSE <<>>,
                            c.ds)
                ELSE v[g]]
      [] c.op \in {"RemoveNode", "RemoveDB"} ->
            [g \in DOMAIN v |->
                IF g = c.group THEN Others(v[g], c.id) ELSE v[g]]
      [] c.op = "RemoveGroup" ->
            [g \in DOMAIN v \ {c.group} |-> v[g]]
      [] OTHER -> v

\* the commands of `order` applied one after the other to v
RECURSIVE EffectAll(_, _)
EffectAll(order, v) ==
    IF order = <<>> THEN v ELSE EffectAll(Tail(order), Effect(Head(order), v))

Perms(n) ==
    {f \in [1..n -> 1..n] : \A i, j \in 1..n : i # j => f[i] # f[j]}

\* the current topology is what some serial order of the applied commands
\* makes of the empty topology
SerialOutcome ==
    \E f \in Perms(Len(log)) :
        After = EffectAll([i \in 1..Len(log) |-> log[f[i]]], EmptyMap)

\* position of map object m in the order of publication
Pos(h, m) == CHOOSE i \in 1..Len(h) : h[i].id = m

\* C8: every published snapshot is the result of applying its command to the
\* snapshot published just before it, publications only extend the order,
\* when all commands have returned the topology is the outcome of some
\* serial order of them, and a reader's successive loads never go backwards
\* in the order of publication.
C8_LinearizablePublication ==
    [][ /\ hist' # hist =>
             /\ Len(hist') = Len(hist) + 1
             /\ SubSeq(hist', 1, Len(hist)) = hist
             /\ hist'[Len(hist')].val =
                   Effect(hist'[Len(hist')].cmd, hist[Len(hist)].val)
             /\ hist'[Len(hist')].id = dss'
        /\ AllIdle' => SerialOutcome'
        /\ \A r \in Readers :
              (rd[r].topology # NoMap /\ rd'[r].topology # NoMap)
              => Pos(hist', rd'[r].topology) >= Pos(hist, rd[r].topology)
      ]_vars

\* a topology command has published while another topology command waits
\* for the mutex and a reader still holds the snapshot published before
C8_Witness ==
    \E t, u \in Threads, r \in Readers :
        /\ pc[t] = "ret" /\ cmd[t].op \in TopoOps /\ dss # current[t]
        /\ pc[u] = "lock" /\ cmd[u].op \in TopoOps
        /\ rd[r].topology = current[t]

\* C9: in every state each reader can perform CurrentTopology() and
\* CurrentRule(), and no such load changes the holder of the mutex.
C9_ReadersNeverBlock ==
    \A r \in Readers :
        /\ ENABLED CurrentTopology(r)
        /\ ENABLED CurrentRule(r)
        /\ ~ENABLED ((CurrentTopology(r) \/ CurrentRule(r)) /\ lock' # lock)

\* a reader has loaded the new topology while RemoveNode, holding the mutex,
\* is about to call Close() on the handle it removed
C9_Witness ==
    \E t \in Threads, r \in Readers :
        /\ pc[t] = "close" /\ lock = t
        /\ rd[r].topology = dss

\* C10: every command that has returned has returned nil.
C10_AlwaysSuccess ==
    \A t \in Threads :
        (pc[t] = "idle" /\ cmd[t] # NoCmd) => ret[t] = "nil"

\* UpdateWeight has returned after a SetWeight that failed
C10_Witness ==
    \E t \in Threads :
        /\ pc[t] = "idle" /\ cmd[t].op = "UpdateWeight"
        /\ err[t] = "failed" /\ ret[t] = "nil"

\* some thread takes a step of an UpdateWeight command
InUpdateWeight(t) == cmd'[t].op = "UpdateWeight" /\ pc'[t] # pc[t]

\* C11: no step of UpdateWeight changes ns.dss, the heap or the published
\* history; with no handle of that ID in the group it returns nil without
\* any SetWeight call; otherwise it calls SetWeight once, on the handle of
\* the group with that ID and on no other, and returns nil whether the call
\* fails or not.
C11_UpdateWeightFrame ==
    [][ \A t \in Threads : InUpdateWeight(t) =>
          LET g     == cmd'[t].group
              seq   == IF g \in DOMAIN After THEN After[g] ELSE <<>>
              found == HasID(seq, cmd'[t].id)
          IN  /\ dss' = dss /\ maps' = maps /\ slices' = slices
              /\ hist' = hist
              /\ pc[t] # "setw" => setCalls' = setCalls /\ weight' = weight
              /\ pc[t] = "body" =>
                    IF found THEN pc'[t] = "setw"
                    ELSE pc'[t] = "ret" /\ ret'[t] = "nil"
              /\ pc[t] = "setw" =>
                    /\ \E i \in 1..Len(seq) :
                          /\ ID(seq[i]) = cmd[t].id
                          /\ setCalls' = [setCalls EXCEPT ![seq[i]] = @ + 1]
                    /\ pc'[t] = "ret" /\ ret'[t] = "nil"
      ]_vars

\* UpdateWeight has called SetWeight on a handle of a group of two, the call
\* failed, and the command is about to return
C11_Witness ==
    \E t \in Threads :
        /\ Finished(t, "UpdateWeight")
        /\ err[t] = "failed"
        /\ setCalls[victim[t]] = 1
        /\ Len(After[cmd[t].group]) = 2

\* the current parameters hold the slow-threshold key with a value that
\* parses as a duration
ValidThreshold ==
    \E p \in parameters : p[1] = SlowThreshold /\ ParseDuration(p[2]) # -1

\* C12: UpdateSlowThreshold() sets ns.slowThreshold to the parsed duration
\* when the parameters hold the key with a parseable value, and leaves it at
\* its previous value when the key is missing or the value does not parse.
C12_SlowThresholdUpdate ==
    [][ \A t \in Threads :
          ( /\ pc[t] = "body"
            /\ cmd[t].op = "UpdateSlowThreshold"
            /\ pc'[t] # "body" )
          => /\ ValidThreshold =>
                   \E p \in parameters :
                       /\ p[1] = SlowThreshold
                       /\ slowThreshold' = ParseDuration(p[2])
             /\ ~ValidThreshold => slowThreshold' = slowThreshold
             /\ ret'[t] = "nil"
      ]_vars

\* a threshold of one second was configured, then the parameters were
\* replaced by an unparseable value and UpdateSlowThreshold() ran again
C12_Witness ==
    /\ log = <<CmdUpdateParameters({<<SlowThreshold, "1s">>}),
               CmdUpdateSlowThreshold,
               CmdUpdateParameters({<<SlowThreshold, "garbage">>}),
               CmdUpdateSlowThreshold>>
    /\ AllIdle
    /\ slowThreshold = 1

\* the IDs of the handles of s, in order
IDsOf(s) == [i \in 1..Len(s) |-> ID(s[i])]

\* the IDs that group sequence pre held appear in post in the same order
OrderKept(pre, post) ==
    SelectSeq(IDsOf(post), LAMBDA id : HasID(pre, id)) = IDsOf(pre)

RemovalOps == {"RemoveNode", "RemoveDB", "RemoveGroup"}

\* C13: a command that is not a removal keeps, in every group, the IDs the
\* group held in the order they had: every publication by such a command
\* keeps the order, and such a command that has run left every group so.
C13_OrderPreserved ==
    /\ \A i \in 2..Len(hist) :
          hist[i].cmd.op \notin RemovalOps =>
             \A g \in DOMAIN hist[i-1].val :
                /\ g \in DOMAIN hist[i].val
                /\ OrderKept(hist[i-1].val[g], hist[i].val[g])
    /\ \A t \in Threads :
          (pc[t] = "ret" /\ cmd[t].op \in {"UpdateWeight", "UpsertDB"}) =>
             \A g \in DOMAIN Before(t) :
                g \in DOMAIN After /\ OrderKept(Before(t)[g], After[g])

\* handle h is a member of sequence s
Member(s, h) == \E i \in 1..Len(s) : s[i] = h

\* C14: when RemoveNode is about to call Close on the handle it removed, the
\* mapping it built is the published one and its group no longer holds the
\* handle, RemoveNode holds the lock, and no other locked command is inside
\* its body (none can publish before Close returns).
C14_TeardownAfterPublish ==
    \A t \in Threads :
        pc[t] = "close" =>
            /\ victim[t] \in Handles
            /\ lock = t
            /\ dss = newborn[t]
            /\ hist[Len(hist)].id = newborn[t]
            /\ ~Member(GroupSeq(dss, cmd[t].group), victim[t])
            /\ \A u \in Threads \ {t} :
                  NeedsLock(cmd[u].op) => pc[u] \in {"idle", "lock"}

\* RemoveNode is about to close the removed handle while another locked
\* command waits for the lock
C14_Witness ==
    \E t \in Threads, u \in Threads :
        /\ pc[t] = "close" /\ victim[t] # Nil
        /\ pc[u] = "lock" /\ NeedsLock(cmd[u].op)

\* the publications by RemoveNode that took handle h out of the group named
\* by the command
RemoveNodeRemovals(h) ==
    {i \in 2..Len(hist) :
        /\ hist[i].cmd.op = "RemoveNode"
        /\ hist[i].cmd.group \in DOMAIN hist[i-1].val
        /\ Member(hist[i-1].val[hist[i].cmd.group], h)
        /\ ~Member(hist[i].val[hist[i].cmd.group], h)}

\* a RemoveNode has published and is about to close h
ClosePending(h) == \E t \in Threads : pc[t] = "close" /\ victim[t] = h

\* C15: the number of Close calls a handle has received is the number of
\* times RemoveNode removed it (less the call RemoveNode is about to make);
\* no other command, and no RemoveNode on another handle, closes it.
C15_TeardownAsymmetry ==
    \A h \in Handles :
        closed[h] = Cardinality(RemoveNodeRemovals(h))
                    - (IF ClosePending(h) THEN 1 ELSE 0)

\* UpsertDB displaced a handle and RemoveDB removed its successor, and no
\* handle was closed
C15_Witness ==
    /\ log = <<CmdUpsertDB("g1", "h1"), CmdUpsertDB("g1", "h2"),
               CmdRemoveDB("g1", "db_a")>>
    /\ AllIdle
    /\ Len(hist) = 4
    /\ \A h \in Handles : closed[h] = 0

\* thread t takes the step that runs the body of UpdateRule
RunsUpdateRule(t) ==
    pc[t] = "body" /\ cmd[t].op = "UpdateRule" /\ pc'[t] # "body"

\* C16: the step of UpdateRule is taken with the lock held and stores the rule
\* it was given, whatever it is, leaving the topology, the parameters, the slow
\* threshold and the slow logger as they were, and UpdateRule returns nil; no
\* step of any other command changes the rule.
C16_UpdateRuleWholesale ==
    [][ /\ \A t \in Threads :
              RunsUpdateRule(t) =>
                 /\ lock = t
                 /\ rule' = cmd[t].rule
                 /\ dss' = dss /\ View(dss)' = View(dss)
                 /\ parameters' = parameters
                 /\ slowThreshold' = slowThreshold
                 /\ slowLog' = slowLog
                 /\ ret'[t] = "nil"
        /\ rule' # rule => \E t \in Threads : RunsUpdateRule(t) ]_vars

\* the nil rule replaced a rule that had replaced the initial one, over a
\* topology and settings that earlier commands had set
C16_Witness ==
    /\ \E c \in Commands :
          /\ c.op \in TopoOps \cup {"UpdateParameters", "UpdateSlowLogger"}
          /\ log = <<c, CmdUpdateRule("r1"), CmdUpdateRule(Nil)>>
    /\ AllIdle
    /\ rule = Nil

\* C17: every mapping that was published still has the groups and the
\* sequences it had when it was published, whatever commands ran since.
C17_PublishedImmutable ==
    \A i \in 1..Len(hist) : View(hist[i].id) = hist[i].val

\* two later commands have published since a mapping was published, and the
\* current mapping shares one of that mapping's sequences by reference while
\* another of its groups differs
C17_Witness ==
    \E i \in 1..Len(hist) :
        /\ Len(hist) >= i + 2
        /\ hist[i].id # dss
        /\ hist[i].val # View(dss)
        /\ \E g \in DOMAIN maps[dss] \cap DOMAIN maps[hist[i].id] :
              maps[dss][g] = maps[hist[i].id][g]

\* C18: a RemoveNode, RemoveDB or RemoveGroup whose target is absent stores
\* no mapping: the current mapping is the very object the command loaded.
C18_NoOpNoPublication ==
    \A t \in Threads :
        ( /\ pc[t] = "ret"
          /\ cmd[t].op \in RemovalOps
          /\ TargetAbsent(cmd[t], Before(t)) )
        => dss = current[t]

\* thread t is between ns.Lock() and the deferred ns.Unlock() of a command
InsideLocked(t) == pc[t] \notin {"idle", "lock"} /\ NeedsLock(cmd[t].op)

\* C19: the mutex is held by a thread exactly while that thread is inside a
\* locking command (so it is free when no command is executing, whichever
\* return path was taken), and every command that was applied returns.
C19_RunToCompletion ==
    /\ [](\A t \in Threads : lock = t <=> InsideLocked(t))
    /\ [](AllIdle => lock = NoThread)
    /\ \A t \in {"t1", "t2"} : (pc[t] # "idle") ~> (pc[t] = "idle")

\* a command waits for the mutex while another command, which found its
\* target absent and is about to return early, still holds it
C19_Witness ==
    \E t \in Threads, u \in Threads :
        /\ pc[t] = "lock"
        /\ lock = u
        /\ pc[u] = "ret"
        /\ cmd[u].op \in {"UpdateWeight", "RemoveDB"}
        /\ victim[u] = Nil

\* no UpsertDB published handle h after a RemoveNode had removed it
NoUpsertAfterTeardown(h) ==
    \A i \in RemoveNodeRemovals(h) :
        \A j \in (i + 1)..Len(hist) :
            ~(hist[j].cmd.op = "UpsertDB" /\ hist[j].cmd.ds = h)

\* C20: when no handle was upserted after its teardown, a handle that has
\* been closed is a member of no group of the current topology.
C20_NoClosedHandleRoutable ==
    \A h \in Handles :
        (closed[h] > 0 /\ NoUpsertAfterTeardown(h))
        => \A g \in DOMAIN After : ~Member(After[g], h)

====
